---- MODULE Spec2Model ----
(***************************************************************************)
(* Verification model of snowFX (scripts/snowflakeGUI.py, curves.py,       *)
(* particleFX.py,                                                          *)
(* makeSnowflakes.py).                                                     *)
(*                                                                         *)
(* The specifications share one set of variables:                          *)
(*   Spec        the Generate callbacks of snowflakeUI, one host call or   *)
(*               straight-line block per step, every host call outside a   *)
(*               validation block either returning or raising;             *)
(*   SpecCurves  the four spiral generators of curves.py;                  *)
(*   SpecEmit    the per-particle emission distance of emitCurve;          *)
(*   SpecExplode the tangent computation of particles.explode;             *)
(*   SpecFlake   makeFlake and the recursion of flakeIterate;              *)
(*   SpecMake    makeShards, makeSnowflakes and makeAllParticles;          *)
(*   SpecDeath   particles.death.                                          *)
(***************************************************************************)
EXTENDS Integers, Sequences, FiniteSets

VARIABLES handler, pc, args, log, popups, progressOpen,
          gen, cargs, created, curve, deleted, reversals,
          eargs, launchK, distance,
          xargs, tangents,
          flArgs, fiIter, fiBase, fiStack, fiResult, fiPc, flake,
          mkArgs, mkPc, mkNumber, mkCount, mkList, SGList, sgMade,
          objects, shards, flakes, particles, deletedObj, progress,
          entry, particle, deathKeys

guiVars     == <<handler, pc, args, log, popups, progressOpen>>
curveVars   == <<gen, cargs, created, curve, deleted, reversals>>
emitVars    == <<eargs, launchK, distance>>
explodeVars == <<xargs, tangents>>
flakeVars   == <<flArgs, fiIter, fiBase, fiStack, fiResult, fiPc, flake>>
makeVars    == <<mkArgs, mkPc, mkNumber, mkCount, mkList, SGList, sgMade,
                 objects, shards, flakes, particles, deletedObj, progress>>
deathVars   == <<entry, particle, deathKeys>>
vars        == <<handler, pc, args, log, popups, progressOpen,
                 gen, cargs, created, curve, deleted, reversals,
                 eargs, launchK, distance, xargs, tangents,
                 flArgs, fiIter, fiBase, fiStack, fiResult, fiPc, flake,
                 mkArgs, mkPc, mkNumber, mkCount, mkList, SGList, sgMade,
                 objects, shards, flakes, particles, deletedObj, progress,
                 entry, particle, deathKeys>>

----------------------------------------------------------------------------
(* Bounds of the model *)

MaxFrame == 2
MaxLife  == 2
MaxTrail == 2
MaxLoops == 2
MaxHeight == 2
MaxGap == 2
MaxDuration == 3
MaxDist == 2
LaunchRes == 2
MaxEmitTime == 2
MaxCoord == 1
MaxIter == 3
MaxShards == 2
MaxFlakes == 2
MaxBorn == 1

----------------------------------------------------------------------------
(* Idle values of the parts a specification does not exercise *)

NoArgs == [startFrame |-> 0, endFrame |-> 0, lifeTime |-> 0, fadeOut |-> 0,
           nose |-> 0, tail |-> 0, length |-> 0,
           sourceIsCurve |-> FALSE, polyRaises |-> FALSE, vtxCount |-> 0]

GuiIdle == /\ handler = "none"
           /\ pc = "idle"
           /\ args = NoArgs
           /\ log = <<>>
           /\ popups = <<>>
           /\ progressOpen = FALSE

CurvesIdle == /\ gen = "none"
              /\ cargs = [loops |-> 0, spiralIn |-> FALSE, param |-> 0, height |-> 0]
              /\ created = <<>>
              /\ curve = <<>>
              /\ deleted = 0
              /\ reversals = 0

EmitIdle == /\ eargs = [duration |-> 0, maxDistance |-> 0, minDistance |-> 0]
            /\ launchK = 0
            /\ distance = 0

ExplodeIdle == /\ xargs = [start |-> 0, duration |-> 0,
                           startPos |-> <<0, 0, 0>>, endPos |-> <<0, 0, 0>>]
               /\ tangents = <<>>

FlakeIdle == /\ flArgs = [caller |-> "none", branches |-> 0, iterations |-> 0]
             /\ fiIter = 0
             /\ fiBase = [kind |-> "none", level |-> 0, len |-> 0]
             /\ fiStack = <<>>
             /\ fiResult = <<>>
             /\ fiPc = "idle"
             /\ flake = 0

MakeIdle == /\ mkArgs = [caller |-> "none", shardNumber |-> 0, flakeNumber |-> 0]
            /\ mkPc = "idle"
            /\ mkNumber = 0
            /\ mkCount = 0
            /\ mkList = <<>>
            /\ SGList = <<>>
            /\ sgMade = 0
            /\ objects = <<>>
            /\ shards = <<>>
            /\ flakes = <<>>
            /\ particles = <<>>
            /\ deletedObj = 0
            /\ progress = 0

DeathIdle == /\ entry = [born |-> 0, lifeTime |-> 0, fadeOut |-> 0]
             /\ particle = [born |-> 0, lifeTime |-> 0, fadeOut |-> 0]
             /\ deathKeys = <<>>

----------------------------------------------------------------------------
(* snowflakeGUI.py : the Generate callbacks *)

CurveHandlers == {"runHypCurve", "runLogCurve", "runArcCurve", "runArcDoubCurve"}
FXHandlers    == {"runEmitCurve", "runCurveFollow", "runPlaneEmit", "runFlakeGen"}
Handlers      == CurveHandlers \cup FXHandlers

VtxCounts == {4, 9}

(* Values the callback reads from the UI fields and the host's answers to  *)
(* its source checks.  Every intField has minValue=0.                      *)
FieldValues(h) ==
    IF h \in {"runEmitCurve", "runPlaneEmit"}
    THEN {[NoArgs EXCEPT !.startFrame = s, !.endFrame = e, !.lifeTime = l,
                         !.fadeOut = f, !.sourceIsCurve = c,
                         !.polyRaises = r, !.vtxCount = v] :
             s \in 0..MaxFrame, e \in 0..MaxFrame, l \in 0..MaxLife,
             f \in 0..(MaxLife + 1),
             c \in (IF h = "runEmitCurve" THEN BOOLEAN ELSE {FALSE}),
             r \in (IF h = "runPlaneEmit" THEN BOOLEAN ELSE {FALSE}),
             v \in (IF h = "runPlaneEmit" THEN VtxCounts ELSE {0})}
    ELSE IF h = "runCurveFollow"
    THEN {[NoArgs EXCEPT !.startFrame = s, !.endFrame = e, !.nose = n,
                         !.tail = t, !.length = l, !.sourceIsCurve = c] :
             s \in 0..MaxFrame, e \in 0..MaxFrame, n \in 0..MaxTrail,
             t \in 0..MaxTrail, l \in 0..MaxTrail, c \in BOOLEAN}
    ELSE {NoArgs}

(* errorPopup(message): one modal error window *)
errorPopup(msg) == /\ popups' = Append(popups, msg)
                   /\ log' = Append(log, "errorPopup")

(* The callback has ended, by a return or by an exception that left it;   *)
(* control is back in the host's event loop.                               *)
backToEventLoop ==
    /\ pc \in {"returned", "escaped"}
    /\ pc' = "idle"
    /\ handler' = "none"
    /\ args' = NoArgs
    /\ log' = <<>>
    /\ popups' = <<>>
    /\ UNCHANGED progressOpen

(* The user presses a Generate button. *)
Generate(h) ==
    /\ pc = "idle"
    /\ handler' = h
    /\ \E a \in FieldValues(h) : args' = a
    /\ UNCHANGED <<log, popups, progressOpen>>
    /\ pc' = IF h \in CurveHandlers THEN "curve"
             ELSE IF h = "runFlakeGen" THEN "open"
             ELSE "validate"

(* runHypCurve, runLogCurve, runArcCurve, runArcDoubCurve: a bare call of  *)
(* the generator, with no try around it.                                   *)
runSpiral ==
    /\ pc = "curve"
    /\ handler \in CurveHandlers
    /\ \E raises \in BOOLEAN :
         IF raises
         THEN pc' = "escaped" /\ log' = log
         ELSE pc' = "returned" /\ log' = Append(log, "curve")
    /\ UNCHANGED <<handler, args, popups, progressOpen>>

(* runEmitCurve's checks with the fadeOut test left out *)
runEmitCurve_validate_noFadeCheck ==
    /\ pc = "validate"
    /\ handler = "runEmitCurve"
    /\ IF args.endFrame <= args.startFrame
       THEN errorPopup("End Frame must be after Start Frame") /\ pc' = "returned"
       ELSE IF args.lifeTime <= 0
       THEN errorPopup("Particles have to have a lifetime") /\ pc' = "returned"
       ELSE IF ~args.sourceIsCurve
       THEN errorPopup("Choose a source curve") /\ pc' = "returned"
       ELSE /\ log' = log \o <<"duplicateCurve", "delete">>
            /\ popups' = popups
            /\ pc' = "reload"
    /\ UNCHANGED <<handler, args, progressOpen>>

(* runEmitCurve lines 695-709 *)
runEmitCurve_validate ==
    /\ pc = "validate"
    /\ handler = "runEmitCurve"
    /\ IF args.endFrame <= args.startFrame
       THEN errorPopup("End Frame must be after Start Frame") /\ pc' = "returned"
       ELSE IF args.lifeTime <= 0
       THEN errorPopup("Particles have to have a lifetime") /\ pc' = "returned"
       ELSE IF args.fadeOut > args.lifeTime
       THEN errorPopup("Lifetime must be larger than fadeout time") /\ pc' = "returned"
       ELSE IF ~args.sourceIsCurve
       THEN errorPopup("Choose a source curve") /\ pc' = "returned"
       ELSE /\ log' = log \o <<"duplicateCurve", "delete">>
            /\ popups' = popups
            /\ pc' = "reload"
    /\ UNCHANGED <<handler, args, progressOpen>>

(* runCurveFollow lines 743-754 *)
runCurveFollow_validate ==
    /\ pc = "validate"
    /\ handler = "runCurveFollow"
    /\ IF args.endFrame <= args.startFrame
       THEN errorPopup("End Frame must be after Start Frame") /\ pc' = "returned"
       ELSE IF args.nose + args.tail > args.length
       THEN errorPopup("Nose and Tail must be less than Trail Length") /\ pc' = "returned"
       ELSE IF ~args.sourceIsCurve
       THEN errorPopup("Choose a source curve") /\ pc' = "returned"
       ELSE /\ log' = log \o <<"duplicateCurve", "delete">>
            /\ popups' = popups
            /\ pc' = "reload"
    /\ UNCHANGED <<handler, args, progressOpen>>

(* runPlaneEmit lines 786-802 *)
runPlaneEmit_validate ==
    /\ pc = "validate"
    /\ handler = "runPlaneEmit"
    /\ IF args.endFrame <= args.startFrame
       THEN errorPopup("End Frame must be after Start Frame") /\ pc' = "returned"
       ELSE IF args.lifeTime <= 0
       THEN errorPopup("Particles have to have a lifetime") /\ pc' = "returned"
       ELSE IF args.fadeOut > args.lifeTime
       THEN errorPopup("Lifetime must be larger than fadeout time") /\ pc' = "returned"
       ELSE IF args.polyRaises
       THEN errorPopup("Choose a source plane") /\ pc' = "returned"
       ELSE IF args.vtxCount # 4
       THEN errorPopup("Select an unsubdivided plane") /\ pc' = "returned"
       ELSE /\ UNCHANGED <<log, popups>>
            /\ pc' = "reload"
    /\ UNCHANGED <<handler, args, progressOpen>>

(* particleFX.reloadFile(), called outside the try block *)
reloadFile ==
    /\ pc = "reload"
    /\ \E raises \in BOOLEAN :
         IF raises
         THEN pc' = "escaped" /\ log' = log
         ELSE pc' = "open" /\ log' = Append(log, "reloadFile")
    /\ UNCHANGED <<handler, args, popups, progressOpen>>

(* cmds.progressWindow(title=..., progress=0, ...), outside the try block *)
progressWindowOpen ==
    /\ pc = "open"
    /\ \E raises \in BOOLEAN :
         IF raises
         THEN pc' = "escaped" /\ UNCHANGED <<log, progressOpen>>
         ELSE /\ pc' = "try1"
              /\ log' = Append(log, "progressOpen")
              /\ progressOpen' = TRUE
    /\ UNCHANGED <<handler, args, popups>>

(* The host calls of the try block, in order *)
TrySteps(h) ==
    IF h = "runEmitCurve" THEN <<"makeAllParticles", "emitCurve", "group", "parent">>
    ELSE IF h = "runCurveFollow" THEN <<"makeAllParticles", "followCurve", "group", "parent">>
    ELSE IF h = "runPlaneEmit" THEN <<"makeAllParticles", "planeEmit", "group", "parent">>
    ELSE <<"makeSnowflakes", "move", "group", "parent">>

TryPcs == <<"try1", "try2", "try3", "try4", "end">>

TryIndex(p) == CHOOSE i \in 1..4 : TryPcs[i] = p

(* One call inside the try block: it returns, or raises into the except *)
tryStep ==
    /\ pc \in {"try1", "try2", "try3", "try4"}
    /\ LET i == TryIndex(pc)
       IN \E raises \in BOOLEAN :
            IF raises
            THEN pc' = "except" /\ log' = log
            ELSE pc' = TryPcs[i + 1] /\ log' = Append(log, TrySteps(handler)[i])
    /\ UNCHANGED <<handler, args, popups, progressOpen>>

(* cmds.progressWindow(ep=1), last statement of the try block *)
progressWindowEnd ==
    /\ pc = "end"
    /\ log' = Append(log, "progressClose")
    /\ progressOpen' = FALSE
    /\ pc' = "returned"
    /\ UNCHANGED <<handler, args, popups>>

(* The except block without its progressWindow(ep=1) *)
exceptHandler_noClose ==
    /\ pc = "except"
    /\ log' = log \o <<"stderr", "errorPopup">>
    /\ popups' = Append(popups, "Something went wrong")
    /\ pc' = "returned"
    /\ UNCHANGED <<handler, args, progressOpen>>

(* except Exception, err: stderr, progressWindow(ep=1), errorPopup(...) *)
exceptHandler ==
    /\ pc = "except"
    /\ log' = log \o <<"stderr", "progressClose", "errorPopup">>
    /\ popups' = Append(popups, "Something went wrong")
    /\ progressOpen' = FALSE
    /\ pc' = "returned"
    /\ UNCHANGED <<handler, args>>

----------------------------------------------------------------------------
(* Properties of the Generate callbacks *)

Count(s, e) == Cardinality({i \in DOMAIN s : s[i] = e})

Occurs(s, e) == \E i \in DOMAIN s : s[i] = e

Ended == pc \in {"returned", "escaped"}

(* C1: no exception raised by a host call at any step of a Generate        *)
(* callback propagates out of the callback.                                *)
C1_NoExceptionEscapes == pc # "escaped"

(* C2: in runEmitCurve, runCurveFollow, runPlaneEmit and runFlakeGen a     *)
(* progress window that was opened is closed exactly once before the       *)
(* handler ends, on the success path and on the exception path, and the    *)
(* error popup of the exception path comes after the close.                *)
C2_ProgressClosedOnce ==
    handler \in FXHandlers =>
      /\ Count(log, "progressClose") <= 1
      /\ progressOpen = (Occurs(log, "progressOpen") /\ ~Occurs(log, "progressClose"))
      /\ (Ended /\ Occurs(log, "progressOpen")) =>
            /\ Count(log, "progressClose") = 1
            /\ ~progressOpen
      /\ \A i, j \in DOMAIN log :
            (log[j] = "progressOpen" /\ log[i] = "errorPopup") =>
               \E k \in DOMAIN log : j < k /\ k < i /\ log[k] = "progressClose"

C2_Witness ==
    /\ handler \in FXHandlers
    /\ pc = "returned"
    /\ Occurs(log, "makeAllParticles")
    /\ Occurs(log, "stderr")
    /\ log[Len(log)] = "errorPopup"
    /\ log[Len(log) - 1] = "progressClose"

InvalidEmit(a) ==
    \/ a.endFrame <= a.startFrame
    \/ a.lifeTime <= 0
    \/ a.fadeOut > a.lifeTime

InvalidInput(h, a) ==
    IF h = "runEmitCurve" THEN InvalidEmit(a) \/ ~a.sourceIsCurve
    ELSE InvalidEmit(a) \/ a.polyRaises \/ a.vtxCount # 4

(* C3: runEmitCurve and runPlaneEmit answer an invalid input (endFrame <=  *)
(* startFrame, lifeTime <= 0, fadeOut > lifeTime, source not a curve resp. *)
(* not a 4-vertex plane) with exactly one error popup and return without   *)
(* reloadFile, progress window, particles, layers or group.                *)
C3_InvalidInputRejected ==
    (/\ handler \in {"runEmitCurve", "runPlaneEmit"}
     /\ pc # "validate"
     /\ InvalidInput(handler, args)) =>
        /\ pc = "returned"
        /\ log = <<"errorPopup">>
        /\ Len(popups) = 1
        /\ ~progressOpen

C3_Witness ==
    /\ handler = "runPlaneEmit"
    /\ pc = "returned"
    /\ ~InvalidEmit(args)
    /\ ~args.polyRaises
    /\ args.vtxCount # 4
    /\ popups = <<"Select an unsubdivided plane">>

FollowInputOk(a) ==
    /\ a.endFrame > a.startFrame
    /\ a.sourceIsCurve
    /\ a.nose + a.tail < a.length

(* C4: runCurveFollow reaches particleFX.followCurve only when endFrame >  *)
(* startFrame, the source is a curve and nose + tail < length; otherwise   *)
(* it shows one error popup and returns without reload or particles.       *)
C4_FollowOnlyWhenNoseTailLess ==
    handler = "runCurveFollow" =>
      /\ Occurs(log, "followCurve") => FollowInputOk(args)
      /\ (pc # "validate" /\ ~FollowInputOk(args)) =>
            (pc = "returned" /\ log = <<"errorPopup">>)

----------------------------------------------------------------------------

Init == GuiIdle /\ CurvesIdle /\ EmitIdle /\ ExplodeIdle /\ FlakeIdle /\ MakeIdle /\ DeathIdle

Next ==
    \/ (\E h \in Handlers : Generate(h)) /\ UNCHANGED <<curveVars, emitVars, explodeVars, flakeVars, makeVars, deathVars>>
    \/ backToEventLoop /\ UNCHANGED <<curveVars, emitVars, explodeVars, flakeVars, makeVars, deathVars>>
    \/ runSpiral /\ UNCHANGED <<curveVars, emitVars, explodeVars, flakeVars, makeVars, deathVars>>
    \/ runEmitCurve_validate /\ UNCHANGED <<curveVars, emitVars, explodeVars, flakeVars, makeVars, deathVars>>
    \/ runCurveFollow_validate /\ UNCHANGED <<curveVars, emitVars, explodeVars, flakeVars, makeVars, deathVars>>
    \/ runPlaneEmit_validate /\ UNCHANGED <<curveVars, emitVars, explodeVars, flakeVars, makeVars, deathVars>>
    \/ reloadFile /\ UNCHANGED <<curveVars, emitVars, explodeVars, flakeVars, makeVars, deathVars>>
    \/ progressWindowOpen /\ UNCHANGED <<curveVars, emitVars, explodeVars, flakeVars, makeVars, deathVars>>
    \/ tryStep /\ UNCHANGED <<curveVars, emitVars, explodeVars, flakeVars, makeVars, deathVars>>
    \/ progressWindowEnd /\ UNCHANGED <<curveVars, emitVars, explodeVars, flakeVars, makeVars, deathVars>>
    \/ exceptHandler /\ UNCHANGED <<curveVars, emitVars, explodeVars, flakeVars, makeVars, deathVars>>

Spec == Init /\ [][Next]_vars

----------------------------------------------------------------------------
(* curves.py : the spiral generators                                       *)
(*                                                                         *)
(* A control vertex is kept in the polar form the code computes before it  *)
(* converts to x = r*cos(theta), y = r*sin(theta):                         *)
(*   k      theta = k * 0.25*pi                                            *)
(*   r      the radius as a fraction num/den, in a unit fixed per          *)
(*          generator (hyperbolic 4/pi, logarithmic 0.1/(1.8*pi),          *)
(*          archimedes 1/7.2); the distance of (x, y) from the axis is r   *)
(*   ySign  -1 where the code negates y                                    *)
(*   h      the numerator of the height, over the denominator cvNo:        *)
(*          i*heightFrac = (i*height)/cvNo, in exact arithmetic            *)

Origin == [k |-> 0, r |-> [num |-> 0, den |-> 1], ySign |-> 1, h |-> 0]

CV(k, num, den, ySign, h) ==
    [k |-> k, r |-> [num |-> num, den |-> den], ySign |-> ySign, h |-> h]

RECURSIVE Pow(_, _)
Pow(b, n) == IF n = 0 THEN 1 ELSE b * Pow(b, n - 1)

(* cmds.reverseCurve *)
Reverse(s) == [i \in 1..Len(s) |-> s[Len(s) + 1 - i]]

(* e^(growth*0.25*pi) for the growth values of the model: growth = 0 and   *)
(* growth = 4*ln(2)/pi                                                      *)
GrowthBases == {1, 2}

hyperbolic_shortRange(loops, spiralIn, height) ==
    LET cvNo == loops * 8
        pts  == [i \in 1..cvNo |-> CV(i, 1, i, 1, i * height)]
        all  == <<Origin>> \o pts
    IN /\ gen' = "hyperbolic"
       /\ cargs' = [loops |-> loops, spiralIn |-> spiralIn, param |-> 0, height |-> height]
       /\ created' = all
       /\ deleted' = 1
       /\ curve' = IF spiralIn = FALSE THEN Reverse(Tail(all)) ELSE Tail(all)
       /\ reversals' = IF spiralIn = FALSE THEN 1 ELSE 0

(* hyperbolic(loops, spiralIn, height): r = theta**(-1), i = 1..cvNo+1,    *)
(* cv[0] deleted, reversed when spiralIn == False                          *)
hyperbolic(loops, spiralIn, height) ==
    LET cvNo == loops * 8
        pts  == [i \in 1..(cvNo + 1) |-> CV(i, 1, i, 1, i * height)]
        all  == <<Origin>> \o pts
    IN /\ gen' = "hyperbolic"
       /\ cargs' = [loops |-> loops, spiralIn |-> spiralIn, param |-> 0, height |-> height]
       /\ created' = all
       /\ deleted' = 1
       /\ curve' = IF spiralIn = FALSE THEN Reverse(Tail(all)) ELSE Tail(all)
       /\ reversals' = IF spiralIn = FALSE THEN 1 ELSE 0

logarithmic_reverseWhenOut(loops, spiralIn, base, height) ==
    LET cvNo == loops * 8
        pts  == [i \in 1..cvNo |-> CV(i, Pow(base, i), 1, 1, i * height)]
        all  == <<Origin>> \o pts
    IN /\ gen' = "logarithmic"
       /\ cargs' = [loops |-> loops, spiralIn |-> spiralIn, param |-> base, height |-> height]
       /\ created' = all
       /\ deleted' = 0
       /\ curve' = IF spiralIn = FALSE THEN Reverse(all) ELSE all
       /\ reversals' = IF spiralIn = FALSE THEN 1 ELSE 0

(* logarithmic(loops, spiralIn, growth, height): r = c*e**(growth*theta),  *)
(* i = 1..cvNo, reversed when spiralIn == True; base = e**(growth*pi/4)    *)
logarithmic(loops, spiralIn, base, height) ==
    LET cvNo == loops * 8
        pts  == [i \in 1..cvNo |-> CV(i, Pow(base, i), 1, 1, i * height)]
        all  == <<Origin>> \o pts
    IN /\ gen' = "logarithmic"
       /\ cargs' = [loops |-> loops, spiralIn |-> spiralIn, param |-> base, height |-> height]
       /\ created' = all
       /\ deleted' = 0
       /\ curve' = IF spiralIn = TRUE THEN Reverse(all) ELSE all
       /\ reversals' = IF spiralIn = TRUE THEN 1 ELSE 0

(* archimedes(loops, spiralIn, gaps, height): r = (gaps/(1.8*pi))*theta,   *)
(* i = 1..cvNo, reversed when spiralIn == True                             *)
archimedes(loops, spiralIn, gaps, height) ==
    LET cvNo == loops * 8
        pts  == [i \in 1..cvNo |-> CV(i, gaps * i, 1, 1, i * height)]
        all  == <<Origin>> \o pts
    IN /\ gen' = "archimedes"
       /\ cargs' = [loops |-> loops, spiralIn |-> spiralIn, param |-> gaps, height |-> height]
       /\ created' = all
       /\ deleted' = 0
       /\ curve' = IF spiralIn = TRUE THEN Reverse(all) ELSE all
       /\ reversals' = IF spiralIn = TRUE THEN 1 ELSE 0

archimedesDouble_mirroredHeight(loops, spiralDown, gaps, height) ==
    LET cvNo   == loops * 8
        half   == cvNo \div 2
        first  == [i \in 1..half |-> CV(i, gaps * i, 1, 1, i * height)]
        second == [j \in 1..half |->
                     LET i == half - j
                     IN CV(i, gaps * i, 1, -1, i * height)]
        all    == <<Origin>> \o first \o second
    IN /\ gen' = "archimedesDouble"
       /\ cargs' = [loops |-> loops, spiralIn |-> spiralDown, param |-> gaps, height |-> height]
       /\ created' = all
       /\ deleted' = 0
       /\ curve' = IF spiralDown = TRUE THEN Reverse(all) ELSE all
       /\ reversals' = IF spiralDown = TRUE THEN 1 ELSE 0

archimedesDouble_secondFromHalf(loops, spiralDown, gaps, height) ==
    LET cvNo   == loops * 8
        half   == cvNo \div 2
        first  == [i \in 1..half |-> CV(i, gaps * i, 1, 1, i * height)]
        second == [j \in 1..half |->
                     LET i == half + 1 - j
                     IN CV(i, gaps * i, 1, -1, cvNo * height - i * height)]
        all    == <<Origin>> \o first \o second
    IN /\ gen' = "archimedesDouble"
       /\ cargs' = [loops |-> loops, spiralIn |-> spiralDown, param |-> gaps, height |-> height]
       /\ created' = all
       /\ deleted' = 0
       /\ curve' = IF spiralDown = TRUE THEN Reverse(all) ELSE all
       /\ reversals' = IF spiralDown = TRUE THEN 1 ELSE 0

(* archimedesDouble(loops, spiralDown, gaps, height): i = 1..cvNo/2 out,   *)
(* then i = cvNo/2-1 down to 0 with y negated and height - i*heightFrac    *)
archimedesDouble(loops, spiralDown, gaps, height) ==
    LET cvNo   == loops * 8
        half   == cvNo \div 2
        first  == [i \in 1..half |-> CV(i, gaps * i, 1, 1, i * height)]
        second == [j \in 1..half |->
                     LET i == half - j
                     IN CV(i, gaps * i, 1, -1, cvNo * height - i * height)]
        all    == <<Origin>> \o first \o second
    IN /\ gen' = "archimedesDouble"
       /\ cargs' = [loops |-> loops, spiralIn |-> spiralDown, param |-> gaps, height |-> height]
       /\ created' = all
       /\ deleted' = 0
       /\ curve' = IF spiralDown = TRUE THEN Reverse(all) ELSE all
       /\ reversals' = IF spiralDown = TRUE THEN 1 ELSE 0

InitCurves == Init

NextCurves ==
    \/ (\E l \in 1..MaxLoops, d \in BOOLEAN, h \in (-1)..MaxHeight :
          hyperbolic(l, d, h)) /\ UNCHANGED <<guiVars, emitVars, explodeVars, flakeVars, makeVars, deathVars>>
    \/ (\E l \in 1..MaxLoops, d \in BOOLEAN, b \in GrowthBases, h \in (-1)..MaxHeight :
          logarithmic(l, d, b, h)) /\ UNCHANGED <<guiVars, emitVars, explodeVars, flakeVars, makeVars, deathVars>>
    \/ (\E l \in 1..MaxLoops, d \in BOOLEAN, g \in 0..MaxGap, h \in (-1)..MaxHeight :
          archimedes(l, d, g, h)) /\ UNCHANGED <<guiVars, emitVars, explodeVars, flakeVars, makeVars, deathVars>>
    \/ (\E l \in 1..MaxLoops, d \in BOOLEAN, g \in 0..MaxGap, h \in (-1)..MaxHeight :
          archimedesDouble(l, d, g, h)) /\ UNCHANGED <<guiVars, emitVars, explodeVars, flakeVars, makeVars, deathVars>>

SpecCurves == InitCurves /\ [][NextCurves]_vars

----------------------------------------------------------------------------
(* Properties of the spiral generators *)

RLess(a, b) == a.num * b.den < b.num * a.den

RLeq(a, b) == a.num * b.den <= b.num * a.den

Appended == Tail(created)

HeightSet(s) == {s[i].h : i \in DOMAIN s}

MaxOf(S) == CHOOSE m \in S : \A x \in S : x <= m

MinOf(S) == CHOOSE m \in S : \A x \in S : m <= x

(* C7 as stated: every generator creates exactly 8*loops + 1 control       *)
(* vertices, the initial point and any point deleted afterwards counted.   *)
C7_CreatedCount == gen # "none" => Len(created) = 8 * cargs.loops + 1

(* C7 amended: the finished curve of every generator has exactly           *)
(* 8*loops + 1 control vertices; hyperbolic creates 8*loops + 2 points     *)
(* and deletes the initial one, the other three create 8*loops + 1 and     *)
(* delete none.                                                            *)
C7_FinishedCount ==
    gen # "none" =>
      /\ Len(curve) = 8 * cargs.loops + 1
      /\ Len(created) = Len(curve) + deleted
      /\ deleted = (IF gen = "hyperbolic" THEN 1 ELSE 0)

C7_Witness ==
    /\ gen = "hyperbolic"
    /\ cargs.loops = 2
    /\ Len(created) = 18
    /\ Len(curve) = 17

(* C8: for hyperbolic, logarithmic (growth > 0) and archimedes (gaps > 0)  *)
(* the finished curve runs from its largest-radius control vertex to its   *)
(* smallest-radius one when spiralIn is true and from the smallest to the  *)
(* largest when it is false, and is reversed at most once.                 *)
C8_DirectionFollowsSpiralIn ==
    (\/ gen = "hyperbolic"
     \/ gen = "logarithmic" /\ cargs.param > 1
     \/ gen = "archimedes" /\ cargs.param > 0) =>
        /\ reversals <= 1
        /\ \A i \in 2..Len(curve) :
              IF cargs.spiralIn
              THEN RLess(curve[i].r, curve[1].r)
              ELSE RLess(curve[1].r, curve[i].r)
        /\ \A i \in 1..(Len(curve) - 1) :
              IF cargs.spiralIn
              THEN RLess(curve[Len(curve)].r, curve[i].r)
              ELSE RLess(curve[i].r, curve[Len(curve)].r)

C8_Witness ==
    /\ gen = "logarithmic"
    /\ cargs.param > 1
    /\ cargs.spiralIn
    /\ reversals = 1
    /\ curve[Len(curve)] = Origin

C10_OutThenIn ==
    (gen = "archimedesDouble" /\ cargs.param > 0) =>
        LET half == 4 * cargs.loops
            app  == Appended
        IN /\ Len(app) = 2 * half
           /\ \A i \in 1..(half - 1) : RLess(app[i].r, app[i + 1].r)
           /\ \A i \in (half + 1)..(2 * half - 1) : RLess(app[i + 1].r, app[i].r)
           /\ app[2 * half].r.num = 0
           /\ app[2 * half].h = cargs.height * (8 * cargs.loops)
           /\ RLeq(app[half + 1].r, app[half].r)

C10_Witness ==
    /\ gen = "archimedesDouble"
    /\ cargs.param = 2
    /\ cargs.loops = 2
    /\ Appended[8].r.num = 16
    /\ Appended[9].r.num = 14
    /\ Appended[9].ySign = -1

----------------------------------------------------------------------------
(* particleFX.py : emitCurve, distance of one particle                     *)
(*                                                                         *)
(* launchTime = random.uniform(0, duration) is drawn on a grid of          *)
(* LaunchRes points per frame: launchTime = k/LaunchRes.  With             *)
(* den = duration*LaunchRes, launchTime/duration = k/den, and a distance   *)
(* is kept as its numerator over den.                                      *)

EmitDen(duration) == duration * LaunchRes

emitDistance_noMirror(k, duration, maxDistance, minDistance) ==
    2 * k * (maxDistance - minDistance) + minDistance * EmitDen(duration)

(* lines 202-205 *)
emitDistance(k, duration, maxDistance, minDistance) ==
    IF 2 * k <= EmitDen(duration)
    THEN 2 * k * (maxDistance - minDistance) + minDistance * EmitDen(duration)
    ELSE 2 * (EmitDen(duration) - k) * (maxDistance - minDistance)
            + minDistance * EmitDen(duration)

(* The call from runEmitCurve: duration = endFrame - startFrame > 0, the   *)
(* distance fields have minValue=0                                         *)
InitEmit ==
    /\ GuiIdle /\ CurvesIdle /\ ExplodeIdle /\ FlakeIdle /\ MakeIdle /\ DeathIdle
    /\ eargs \in [duration : 1..MaxDuration, maxDistance : 0..MaxDist,
                  minDistance : 0..MaxDist]
    /\ launchK = -1
    /\ distance = 0

(* One pass of the loop over particleList, lines 198-205 *)
emitParticle ==
    /\ \E k \in 0..EmitDen(eargs.duration) :
          /\ launchK' = k
          /\ distance' = emitDistance(k, eargs.duration, eargs.maxDistance,
                                      eargs.minDistance)
    /\ UNCHANGED eargs

NextEmit == emitParticle /\ UNCHANGED <<guiVars, curveVars, explodeVars, flakeVars, makeVars, deathVars>>

SpecEmit == InitEmit /\ [][NextEmit]_vars

(* C5: for minDistance <= maxDistance the emission distance is a tent      *)
(* function of the launch time: minDistance at 0 and at duration,          *)
(* maxDistance at duration/2, non-decreasing on the first half,            *)
(* non-increasing on the second, always within [minDistance, maxDistance]. *)
C5_TentDistance ==
    (eargs.minDistance <= eargs.maxDistance /\ launchK >= 0) =>
        LET den     == EmitDen(eargs.duration)
            lo      == eargs.minDistance * den
            hi      == eargs.maxDistance * den
            Dist(k) == emitDistance(k, eargs.duration, eargs.maxDistance,
                                    eargs.minDistance)
        IN /\ launchK = 0 => distance = lo
           /\ launchK = den => distance = lo
           /\ 2 * launchK = den => distance = hi
           /\ lo <= distance /\ distance <= hi
           /\ \A k \in 0..den :
                 /\ (k <= launchK /\ 2 * launchK <= den) => Dist(k) <= distance
                 /\ (launchK <= k /\ 2 * launchK >= den) => Dist(k) <= distance

C5_Witness ==
    /\ eargs.minDistance < eargs.maxDistance
    /\ eargs.minDistance > 0
    /\ 2 * launchK = EmitDen(eargs.duration)
    /\ distance = eargs.maxDistance * EmitDen(eargs.duration)

----------------------------------------------------------------------------
(* particleFX.py : particles.explode                                       *)
(*                                                                         *)
(* A tangent weight x/1.5 is kept as its numerator 2*x over 3.             *)

Axes == 1..3

explodeTangent_keepSign(startV, endV) ==
    LET weight == 2 * (endV - startV)
    IN IF weight < 0
       THEN [angle |-> -80, weight |-> weight]
       ELSE [angle |-> 80, weight |-> weight]

(* lines 65-82, one axis: weight = (end-start)/1.5, negated when negative *)
explodeTangent(startV, endV) ==
    LET weight == 2 * (endV - startV)
    IN IF weight < 0
       THEN [angle |-> -80, weight |-> -weight]
       ELSE [angle |-> 80, weight |-> weight]

(* explode(start, duration, distance): startPos is the translate read at   *)
(* the start frame, endPos the translate read after the move along the     *)
(* object's own Y axis                                                     *)
explode ==
    /\ tangents = <<>>
    /\ \E ep \in [Axes -> (-MaxCoord)..MaxCoord] :
          /\ xargs' = [xargs EXCEPT !.endPos = ep]
          /\ tangents' = [a \in Axes |->
                            [outKey |-> xargs.start,
                             oa |-> explodeTangent(xargs.startPos[a], ep[a]).angle,
                             ow |-> explodeTangent(xargs.startPos[a], ep[a]).weight,
                             inKey |-> xargs.start + xargs.duration,
                             ia |-> 0,
                             iw |-> 2 * xargs.duration]]

(* The particle before its one call of explode: born frame, emitTime and   *)
(* the position it was moved to                                            *)
InitExplode ==
    /\ GuiIdle /\ CurvesIdle /\ EmitIdle /\ FlakeIdle /\ MakeIdle /\ DeathIdle
    /\ \E st \in 0..MaxFrame, du \in 0..MaxEmitTime,
          sp \in [Axes -> (-MaxCoord)..MaxCoord] :
          xargs = [start |-> st, duration |-> du, startPos |-> sp, endPos |-> sp]
    /\ tangents = <<>>

NextExplode == explode /\ UNCHANGED <<guiVars, curveVars, emitVars, flakeVars, makeVars, deathVars>>

SpecExplode == InitExplode /\ [][NextExplode]_vars

Abs(x) == IF x < 0 THEN -x ELSE x

(* C6: per translate axis, explode gives the start key an out-tangent of   *)
(* weight |end - start| / 1.5 and angle +80 when end - start >= 0, -80     *)
(* when end - start < 0, and the end key (frame start + duration) an       *)
(* in-tangent of angle 0 and weight duration / 1.5.                        *)
C6_ExplodeTangents ==
    tangents # <<>> =>
      \A a \in Axes :
        LET d == xargs.endPos[a] - xargs.startPos[a]
            t == tangents[a]
        IN /\ t.outKey = xargs.start
           /\ t.ow = 2 * Abs(d)
           /\ t.ow >= 0
           /\ t.oa = (IF d >= 0 THEN 80 ELSE -80)
           /\ t.inKey = xargs.start + xargs.duration
           /\ t.ia = 0
           /\ t.iw = 2 * xargs.duration

C6_Witness ==
    /\ tangents # <<>>
    /\ xargs.endPos[1] < xargs.startPos[1]
    /\ xargs.endPos[2] > xargs.startPos[2]
    /\ xargs.endPos[3] = xargs.startPos[3]
    /\ tangents[1].oa = -80 /\ tangents[1].ow > 0
    /\ tangents[2].oa = 80
    /\ tangents[3].ow = 0 /\ tangents[3].oa = 80
    /\ xargs.duration = 2

----------------------------------------------------------------------------
(* makeSnowflakes.py : flakeIterate and makeFlake                          *)
(*                                                                         *)
(* A mesh object is a record: kind "base" (the cube or a nextBase          *)
(* duplicate, at recursion level `level`), "twig" (the crystallised twig   *)
(* of a level, scaled by the random length `len`) or "mirror" (its         *)
(* duplicate scaled by -1).  The recursion is modelled with its call       *)
(* stack: a frame is the list a suspended call has built so far.           *)

(* random.uniform(0.2, 3), line 56, on a grid of two lengths *)
TwigLengths == {1, 2}

(* The iteration count makeFlake hands to flakeIterate, line 90 *)
FlakeIterations == 7

(* random.randint(5, 8), line 214: the branches argument of makeFlake *)
BranchChoices == 5..8

Cube == [kind |-> "base", level |-> 0, len |-> 0]

(* A call makeFlake(branches, radius) from makeSnowflakes, about to run,   *)
(* or a direct call flakeIterate(base, n, angle, scale) with n >= 0        *)
InitFlake ==
    /\ GuiIdle /\ CurvesIdle /\ EmitIdle /\ ExplodeIdle /\ MakeIdle /\ DeathIdle
    /\ \/ \E b \in BranchChoices :
            /\ flArgs = [caller |-> "makeFlake", branches |-> b, iterations |-> 0]
            /\ fiIter = 0
            /\ fiBase = [kind |-> "none", level |-> 0, len |-> 0]
            /\ fiPc = "makeFlake"
       \/ \E n \in 0..MaxIter :
            /\ flArgs = [caller |-> "direct", branches |-> 0, iterations |-> n]
            /\ fiIter = n
            /\ fiBase = Cube
            /\ fiPc = "call"
    /\ fiStack = <<>>
    /\ fiResult = <<>>
    /\ flake = 0

(* makeFlake lines 84-90: the tapered cube, then                           *)
(* flakeIterate(name, 7, random.uniform(30,70), 0.7)                       *)
makeFlake_begin ==
    /\ fiPc = "makeFlake"
    /\ fiBase' = Cube
    /\ flArgs' = [flArgs EXCEPT !.iterations = FlakeIterations]
    /\ fiIter' = FlakeIterations
    /\ fiPc' = "call"
    /\ UNCHANGED <<fiStack, fiResult, flake>>

flakeIterate_recurse_noMirror ==
    /\ fiPc = "call"
    /\ fiIter # 0
    /\ \E length \in TwigLengths :
         LET twig == [kind |-> "twig", level |-> fiBase.level, len |-> length]
         IN fiStack' = Append(fiStack, <<fiBase, twig>>)
    /\ fiBase' = [kind |-> "base", level |-> fiBase.level + 1, len |-> 0]
    /\ fiIter' = fiIter - 1
    /\ UNCHANGED <<flArgs, fiResult, fiPc, flake>>

(* lines 51-68 with iterations # 0: list = [base, crystalise(twig),        *)
(* mirrored duplicate], then the recursive call on nextBase                *)
flakeIterate_recurse ==
    /\ fiPc = "call"
    /\ fiIter # 0
    /\ \E length \in TwigLengths :
         LET twig   == [kind |-> "twig", level |-> fiBase.level, len |-> length]
             mirror == [twig EXCEPT !.kind = "mirror"]
         IN fiStack' = Append(fiStack, <<fiBase, twig, mirror>>)
    /\ fiBase' = [kind |-> "base", level |-> fiBase.level + 1, len |-> 0]
    /\ fiIter' = fiIter - 1
    /\ UNCHANGED <<flArgs, fiResult, fiPc, flake>>

(* lines 51-53: iterations == 0, return [base] *)
flakeIterate_bottom ==
    /\ fiPc = "call"
    /\ fiIter = 0
    /\ fiResult' = <<fiBase>>
    /\ fiPc' = IF fiStack = <<>> THEN "done" ELSE "return"
    /\ UNCHANGED <<flArgs, fiIter, fiBase, fiStack, flake>>

(* lines 68-69: list += (result of the inner call); return list *)
flakeIterate_return ==
    /\ fiPc = "return"
    /\ fiResult' = fiStack[Len(fiStack)] \o fiResult
    /\ fiStack' = SubSeq(fiStack, 1, Len(fiStack) - 1)
    /\ fiIter' = fiIter + 1
    /\ fiPc' = IF Len(fiStack) = 1 THEN "done" ELSE "return"
    /\ UNCHANGED <<flArgs, fiBase, flake>>

(* makeFlake lines 91-99: the part list becomes one branch, duplicated     *)
(* five times; `flake` counts the meshes united into the snowflake         *)
makeFlake_combine ==
    /\ fiPc = "done"
    /\ flArgs.caller = "makeFlake"
    /\ flake' = 6 * Len(fiResult)
    /\ fiPc' = "flake"
    /\ UNCHANGED <<flArgs, fiIter, fiBase, fiStack, fiResult>>

NextFlake ==
    \/ makeFlake_begin /\ UNCHANGED <<guiVars, curveVars, emitVars, explodeVars, makeVars, deathVars>>
    \/ flakeIterate_recurse /\ UNCHANGED <<guiVars, curveVars, emitVars, explodeVars, makeVars, deathVars>>
    \/ flakeIterate_bottom /\ UNCHANGED <<guiVars, curveVars, emitVars, explodeVars, makeVars, deathVars>>
    \/ flakeIterate_return /\ UNCHANGED <<guiVars, curveVars, emitVars, explodeVars, makeVars, deathVars>>
    \/ makeFlake_combine /\ UNCHANGED <<guiVars, curveVars, emitVars, explodeVars, makeVars, deathVars>>

(* The interpreter runs a started call to its end *)
SpecFlake == InitFlake /\ [][NextFlake]_vars /\ WF_vars(NextFlake)

FlakeIterateReturned == fiPc \in {"done", "flake"}

(* C11: flakeIterate(base, n, angle, scale) terminates for every n >= 0    *)
(* and returns exactly 3*n + 1 objects, the first of them base; level k    *)
(* of the recursion contributes one crystallised twig, its mirrored        *)
(* duplicate and the next base.                                            *)
C11_FlakeIterateTerminatesWithList ==
    /\ <>FlakeIterateReturned
    /\ [](FlakeIterateReturned =>
            /\ Len(fiResult) = 3 * flArgs.iterations + 1
            /\ fiResult[1] = Cube
            /\ fiIter = flArgs.iterations
            /\ \A k \in 1..flArgs.iterations :
                  /\ fiResult[3 * k - 1].kind = "twig"
                  /\ fiResult[3 * k - 1].level = k - 1
                  /\ fiResult[3 * k] = [fiResult[3 * k - 1] EXCEPT !.kind = "mirror"]
                  /\ fiResult[3 * k + 1] = [kind |-> "base", level |-> k, len |-> 0])

C11_Witness ==
    /\ fiPc = "done"
    /\ flArgs.caller = "direct"
    /\ flArgs.iterations = 3
    /\ Len(fiResult) = 10
    /\ fiResult[2].len # fiResult[5].len

(* C12: the iteration count makeFlake passes to flakeIterate equals its    *)
(* `branches` argument, for every value makeSnowflakes passes (5 to 8).    *)
C12_IterationsEqualBranches ==
    (flArgs.caller = "makeFlake" /\ fiPc # "makeFlake") =>
        flArgs.iterations = flArgs.branches

----------------------------------------------------------------------------
(* makeSnowflakes.py : createColourList, makeShards, makeSnowflakes;       *)
(* snowflakeGUI.py : makeAllParticles                                      *)
(*                                                                         *)
(* The host names every new object uniquely: an object's name is its       *)
(* index in `objects`, a shading group's name a positive number; 0 is the  *)
(* initialShadingGroup every new mesh starts in.                           *)

(* The number handed to createColourList, lines 180 and 209 *)
ColourCount == 5

(* random.randint(0,4), lines 187 and 215 *)
SGIndexes == 0..4

Range(f) == {f[i] : i \in DOMAIN f}

(* createColourList(rgb1, rgb2, transparency, glow, number): `number` new  *)
(* shading groups, in a list                                               *)
createColourList(number) == [i \in 1..number |-> sgMade + i]

NewObject(kind) == [kind |-> kind, sgs |-> {0}, alive |-> TRUE]

(* cmds.sets(obj, e=1, forceElement=sg): obj is a member of sg alone *)
forceElement(objs, id, sg) == [objs EXCEPT ![id].sgs = {sg}]

(* makeAllParticles() with the shardNumber and flakeNumber fields (both    *)
(* minValue=0), or runFlakeGen's makeSnowflakes(flakeNumber, ...)          *)
InitMake ==
    /\ GuiIdle /\ CurvesIdle /\ EmitIdle /\ ExplodeIdle /\ FlakeIdle /\ DeathIdle
    /\ \/ \E sn \in 0..MaxShards, fn \in 0..MaxFlakes :
            /\ mkArgs = [caller |-> "makeAllParticles", shardNumber |-> sn,
                         flakeNumber |-> fn]
            /\ mkPc = "makeShards"
       \/ \E fn \in 0..MaxFlakes :
            /\ mkArgs = [caller |-> "runFlakeGen", shardNumber |-> 0,
                         flakeNumber |-> fn]
            /\ mkPc = "makeSnowflakes"
    /\ mkNumber = 0
    /\ mkCount = 0
    /\ mkList = <<>>
    /\ SGList = <<>>
    /\ sgMade = 0
    /\ objects = <<>>
    /\ shards = <<>>
    /\ flakes = <<>>
    /\ particles = <<>>
    /\ deletedObj = 0
    /\ progress = 0

(* makeShards lines 179-182, called at snowflakeGUI.py line 863 *)
makeShards_begin ==
    /\ mkPc = "makeShards"
    /\ mkNumber' = mkArgs.shardNumber
    /\ progress' = 0
    /\ SGList' = createColourList(ColourCount)
    /\ sgMade' = sgMade + ColourCount
    /\ mkList' = <<>>
    /\ mkCount' = 0
    /\ mkPc' = "shardLoop"
    /\ UNCHANGED <<mkArgs, objects, shards, flakes, particles, deletedObj>>

makeShards_iterate_noAssign ==
    /\ mkPc = "shardLoop"
    /\ mkCount < mkNumber
    /\ objects' = Append(objects, NewObject("shard"))
    /\ mkList' = Append(mkList, Len(objects) + 1)
    /\ progress' = progress + (100 \div mkNumber)
    /\ mkCount' = mkCount + 1
    /\ UNCHANGED <<mkArgs, mkPc, mkNumber, SGList, sgMade, shards, flakes,
                   particles, deletedObj>>

(* makeShards lines 183-189: one pass of the while loop *)
makeShards_iterate ==
    /\ mkPc = "shardLoop"
    /\ mkCount < mkNumber
    /\ \E r \in SGIndexes :
         objects' = forceElement(Append(objects, NewObject("shard")),
                                 Len(objects) + 1, SGList[r + 1])
    /\ mkList' = Append(mkList, Len(objects) + 1)
    /\ progress' = progress + (100 \div mkNumber)
    /\ mkCount' = mkCount + 1
    /\ UNCHANGED <<mkArgs, mkPc, mkNumber, SGList, sgMade, shards, flakes,
                   particles, deletedObj>>

(* makeShards lines 183 and 190: the loop ends, return list *)
makeShards_return ==
    /\ mkPc = "shardLoop"
    /\ ~(mkCount < mkNumber)
    /\ shards' = mkList
    /\ mkPc' = "makeSnowflakes"
    /\ UNCHANGED <<mkArgs, mkNumber, mkCount, mkList, SGList, sgMade, objects,
                   flakes, particles, deletedObj, progress>>

(* makeSnowflakes lines 208-211; makeAllParticles asks for flakeNumber+1   *)
(* (line 870), runFlakeGen for flakeNumber (line 840)                      *)
makeSnowflakes_begin ==
    /\ mkPc = "makeSnowflakes"
    /\ mkNumber' = IF mkArgs.caller = "makeAllParticles"
                   THEN mkArgs.flakeNumber + 1
                   ELSE mkArgs.flakeNumber
    /\ progress' = 0
    /\ SGList' = createColourList(ColourCount)
    /\ sgMade' = sgMade + ColourCount
    /\ mkList' = <<>>
    /\ mkCount' = 0
    /\ mkPc' = "flakeLoop"
    /\ UNCHANGED <<mkArgs, objects, shards, flakes, particles, deletedObj>>

(* makeSnowflakes lines 212-217: one pass of the while loop *)
makeSnowflakes_iterate ==
    /\ mkPc = "flakeLoop"
    /\ mkCount < mkNumber
    /\ \E r \in SGIndexes :
         objects' = forceElement(Append(objects, NewObject("flake")),
                                 Len(objects) + 1, SGList[r + 1])
    /\ mkList' = Append(mkList, Len(objects) + 1)
    /\ progress' = progress + (100 \div mkNumber)
    /\ mkCount' = mkCount + 1
    /\ UNCHANGED <<mkArgs, mkPc, mkNumber, SGList, sgMade, shards, flakes,
                   particles, deletedObj>>

(* makeSnowflakes lines 212 and 218: the loop ends, return list *)
makeSnowflakes_return ==
    /\ mkPc = "flakeLoop"
    /\ ~(mkCount < mkNumber)
    /\ flakes' = mkList
    /\ mkPc' = IF mkArgs.caller = "makeAllParticles" THEN "combine" ELSE "done"
    /\ UNCHANGED <<mkArgs, mkNumber, mkCount, mkList, SGList, sgMade, objects,
                   shards, particles, deletedObj, progress>>

makeAllParticles_finish_shardsFirst ==
    /\ mkPc = "combine"
    /\ LET all == shards \o flakes
       IN /\ deletedObj' = all[1]
          /\ objects' = [objects EXCEPT ![all[1]].alive = FALSE]
          /\ particles' = Tail(all)
    /\ mkPc' = "done"
    /\ UNCHANGED <<mkArgs, mkNumber, mkCount, mkList, SGList, sgMade, shards,
                   flakes, progress>>

(* makeAllParticles lines 877-880: particles = flakes+shards,              *)
(* cmds.delete(particles[0]), return particles[1:]                         *)
makeAllParticles_finish ==
    /\ mkPc = "combine"
    /\ LET all == flakes \o shards
       IN /\ deletedObj' = all[1]
          /\ objects' = [objects EXCEPT ![all[1]].alive = FALSE]
          /\ particles' = Tail(all)
    /\ mkPc' = "done"
    /\ UNCHANGED <<mkArgs, mkNumber, mkCount, mkList, SGList, sgMade, shards,
                   flakes, progress>>

NextMake ==
    \/ makeShards_begin /\ UNCHANGED <<guiVars, curveVars, emitVars, explodeVars, flakeVars, deathVars>>
    \/ makeShards_iterate /\ UNCHANGED <<guiVars, curveVars, emitVars, explodeVars, flakeVars, deathVars>>
    \/ makeShards_return /\ UNCHANGED <<guiVars, curveVars, emitVars, explodeVars, flakeVars, deathVars>>
    \/ makeSnowflakes_begin /\ UNCHANGED <<guiVars, curveVars, emitVars, explodeVars, flakeVars, deathVars>>
    \/ makeSnowflakes_iterate /\ UNCHANGED <<guiVars, curveVars, emitVars, explodeVars, flakeVars, deathVars>>
    \/ makeSnowflakes_return /\ UNCHANGED <<guiVars, curveVars, emitVars, explodeVars, flakeVars, deathVars>>
    \/ makeAllParticles_finish /\ UNCHANGED <<guiVars, curveVars, emitVars, explodeVars, flakeVars, deathVars>>

(* The interpreter runs a started call to its end *)
SpecMake == InitMake /\ [][NextMake]_vars /\ WF_vars(NextMake)

(* The list a maker returned: `number` distinct objects, each a member of  *)
(* exactly one shading group, one of the SGList of that call               *)
ReturnedOk(list, number) ==
    /\ Len(list) = number
    /\ \A i, j \in DOMAIN list : i # j => list[i] # list[j]
    /\ \A i \in DOMAIN list :
          /\ list[i] \in DOMAIN objects
          /\ Cardinality(objects[list[i]].sgs) = 1
          /\ objects[list[i]].sgs \subseteq Range(SGList)

(* C13: makeShards and makeSnowflakes terminate for every number >= 0 (0   *)
(* included, the progress step never dividing by zero) and return exactly  *)
(* `number` objects, each assigned to exactly one shading group of the     *)
(* list createColourList returned for that call.                           *)
C13_MakersReturnNumberObjects ==
    /\ <>(mkPc = "done")
    /\ [](/\ (mkPc = "makeSnowflakes" /\ mkArgs.caller = "makeAllParticles") =>
                (mkNumber = mkArgs.shardNumber /\ ReturnedOk(shards, mkNumber))
          /\ (mkPc = "combine" \/ (mkPc = "done" /\ mkArgs.caller = "runFlakeGen")) =>
                ReturnedOk(flakes, mkNumber)
          /\ mkPc \in {"shardLoop", "flakeLoop"} =>
                (mkCount <= mkNumber /\ Len(SGList) = ColourCount))

C13_Witness ==
    /\ mkPc = "combine"
    /\ shards = <<>>
    /\ mkArgs.shardNumber = 0
    /\ Len(flakes) = 2
    /\ objects[flakes[1]].sgs # objects[flakes[2]].sgs

(* C14: makeAllParticles returns exactly flakeNumber + shardNumber names   *)
(* (both may be zero), every returned name is an object that still         *)
(* exists, and the one object it deletes is a snowflake of its own         *)
(* makeSnowflakes call, never a shard.                                     *)
C14_AllParticlesReturned ==
    (mkPc = "done" /\ mkArgs.caller = "makeAllParticles") =>
        /\ Len(particles) = mkArgs.flakeNumber + mkArgs.shardNumber
        /\ \A i \in DOMAIN particles : objects[particles[i]].alive
        /\ \A i, j \in DOMAIN particles : i # j => particles[i] # particles[j]
        /\ deletedObj \in Range(flakes)
        /\ deletedObj \notin Range(shards)
        /\ objects[deletedObj].kind = "flake"
        /\ {id \in DOMAIN objects : ~objects[id].alive} = {deletedObj}
        /\ Range(particles) = (Range(flakes) \cup Range(shards)) \ {deletedObj}

C14_Witness ==
    /\ mkPc = "done"
    /\ mkArgs.caller = "makeAllParticles"
    /\ mkArgs.flakeNumber = 0
    /\ mkArgs.shardNumber = 2
    /\ Len(particles) = 2
    /\ objects[particles[1]].kind = "shard"
    /\ ~objects[deletedObj].alive

----------------------------------------------------------------------------
(* particleFX.py : particles.death                                         *)

(* The keys death sets from the fields lt (lifeTime) and fo (fadeOut),     *)
(* lines 156-159, in the order it sets them                                *)
deathKeyframes(born, lt, fo) ==
    << [at |-> "scale", v |-> 1, t |-> born + lt - fo],
       [at |-> "scale", v |-> 0, t |-> born + lt + 1],
       [at |-> "visibility", v |-> 1, t |-> born + lt],
       [at |-> "visibility", v |-> 0, t |-> born + lt + 1] >>

(* A particle whose born, lifeTime and fadeOut the caller has set (any     *)
(* integers: emitCurve lines 209-210 add random variation to the fields)   *)
InitDeath ==
    /\ GuiIdle /\ CurvesIdle /\ EmitIdle /\ ExplodeIdle /\ FlakeIdle /\ MakeIdle
    /\ \E b \in 0..MaxBorn, lt \in -MaxLife..MaxLife,
          fo \in -(MaxLife + 1)..(MaxLife + 1) :
         entry = [born |-> b, lifeTime |-> lt, fadeOut |-> fo]
    /\ particle = entry
    /\ deathKeys = <<>>

death_noNegativeClamp ==
    /\ deathKeys = <<>>
    /\ LET lt == IF particle.lifeTime <= 0 THEN 2 ELSE particle.lifeTime
           fo == IF particle.fadeOut > lt THEN lt ELSE particle.fadeOut
       IN /\ particle' = [particle EXCEPT !.lifeTime = lt, !.fadeOut = fo]
          /\ deathKeys' = deathKeyframes(particle.born, lt, fo)
    /\ UNCHANGED entry

(* death lines 150-159 *)
death ==
    /\ deathKeys = <<>>
    /\ LET lt == IF particle.lifeTime <= 0 THEN 2 ELSE particle.lifeTime
           f0 == IF particle.fadeOut < 0 THEN 0 ELSE particle.fadeOut
           fo == IF f0 > lt THEN lt ELSE f0
       IN /\ particle' = [particle EXCEPT !.lifeTime = lt, !.fadeOut = fo]
          /\ deathKeys' = deathKeyframes(particle.born, lt, fo)
    /\ UNCHANGED entry

NextDeath ==
    \/ death /\ UNCHANGED <<guiVars, curveVars, emitVars, explodeVars, flakeVars, makeVars>>

SpecDeath == InitDeath /\ [][NextDeath]_vars

(* C15: whatever integers lifeTime and fadeOut hold on entry, the values   *)
(* death keys with satisfy lifeTime >= 1 and 0 <= fadeOut <= lifeTime, so  *)
(* the scale=1 key at born+lifeTime-fadeOut is at or after born and        *)
(* strictly before the scale=0 key at born+lifeTime+1.                     *)
C15_DeathValidates ==
    deathKeys # <<>> =>
        /\ particle.lifeTime >= 1
        /\ 0 <= particle.fadeOut
        /\ particle.fadeOut <= particle.lifeTime
        /\ deathKeys[1] = [at |-> "scale", v |-> 1,
                           t |-> particle.born + particle.lifeTime - particle.fadeOut]
        /\ deathKeys[2] = [at |-> "scale", v |-> 0,
                           t |-> particle.born + particle.lifeTime + 1]
        /\ deathKeys[1].t >= particle.born
        /\ deathKeys[1].t < deathKeys[2].t

C15_Witness ==
    /\ deathKeys # <<>>
    /\ entry.lifeTime <= 0
    /\ entry.fadeOut > 2
    /\ particle.lifeTime = 2
    /\ particle.fadeOut = 2
    /\ deathKeys[1].t = particle.born

====
